---- MODULE Spec2Model ----
(***************************************************************************)
(* EduVis AI: the form/state controller of src/app/page.tsx (dual mode:    *)
(* generate a visual from a prompt, or explain an uploaded image), its     *)
(* single-mode predecessor (prompt only), and the two server-side flows    *)
(* generateEducationalVisual and explainVisualConcept.                     *)
(*                                                                         *)
(* A JavaScript string is a sequence of code points (naturals); null and   *)
(* undefined are the one value Null, which is no string.                   *)
(***************************************************************************)
EXTENDS Integers, Sequences, FiniteSets, TLC

\* ------------------------------------------------------------------ bounds
\* Submissions (clicks on the submit control) explored by Spec.
MaxSubmits == 2
\* Submissions explored by SpecHist, enough to overflow the history cap.
MaxSubmitsHist == 52
\* Events off the straight submit/succeed path that SpecHist explores once
\* the history is about to fill.
MaxEdits == 1
\* Selections of a history entry explored by either specification.
MaxClicks == 1

\* ------------------------------------------------------- program constants
\* The code point of the error marker (U+274C).
Marker == 10060
\* prev.slice(0, 49): the entries of the previous history that are kept.
SliceEnd == 49
\* z.string().min(3) of the single-mode form schema.
MinPromptLen == 3

\* ------------------------------------------------------------------ strings
Null == << -1 >>

\* JavaScript truthiness of a string-or-null value: null, undefined and ''
\* are falsy.
Truthy(v) == v /= Null /\ v /= << >>

\* s.startsWith(p), for a string s.
StartsWith(s, p) ==
    /\ Len(s) >= Len(p)
    /\ SubSeq(s, 1, Len(p)) = p

Min(a, b) == IF a < b THEN a ELSE b

\* s.slice(0, end) for an array s and end >= 0.
Slice0(s, end) == SubSeq(s, 1, Min(end, Len(s)))

\* The three fixed marker-prefixed messages (marker, then the first letter
\* of the sentence that follows it).
RefusalMessage == << Marker, 32, 34, 73 >>
ApologyMessage == << Marker, 32, 83 >>
\* The thrown error's own message ("Er...") in place of the fixed one.
ErrorDetailMessage == << 69, 114 >>
UnexpectedMessage == << Marker, 32, 65 >>

\* The eight values of the domain enum.
Domains ==
    { "Biology", "Physics", "Chemistry", "Geography & Environment",
      "Space Science", "Engineering", "Computer Science", "Mathematics" }

\* A data URI with payload n: "d", then the payload.
DataUri(n) == << 100, n >>

\* An explanation text with payload n: "t", then the payload.
Text(n) == << 116, n >>

\* --------------------------------------------------------------- the flows
\* What a flow hands to its caller: it throws, or it returns an object
\* (isNull: the returned value is null) whose one field is `field`.
Thrown == [threw |-> TRUE, isNull |-> FALSE, field |-> Null]
Returned(v) == [threw |-> FALSE, isNull |-> FALSE, field |-> v]
ReturnedNull == [threw |-> FALSE, isNull |-> TRUE, field |-> Null]

\* The sentence the system prompt tells the model to refuse with (marker,
\* then the first letter of the sentence).
RefusalSentence == << Marker, 32, 34, 73 >>

\* The outcomes of ai.generate: it throws, or it resolves with a response
\* that holds a text, which may be the refusal sentence, and {media}, where
\* media may be missing and media.url may be missing or empty.
GenerateOutcomes(urls) ==
    [throws : {TRUE}, text : {Null}, hasMedia : {FALSE}, url : {Null}]
    \cup [throws : {FALSE}, text : {<< >>, RefusalSentence},
          hasMedia : {FALSE}, url : {Null}]
    \cup [throws : {FALSE}, text : {<< >>, RefusalSentence},
          hasMedia : {TRUE}, url : {Null, << >>} \cup urls]

\* The generation flow without its catch block.
generateEducationalVisualFlowNoCatch(o) ==
    IF o.throws
    THEN Thrown
    ELSE IF ~o.hasMedia \/ ~Truthy(o.url)
         THEN Returned(RefusalMessage)
         ELSE Returned(o.url)

\* generateEducationalVisualFlow on an outcome of ai.generate: only media is
\* read from the response.
generateEducationalVisualFlow(o) ==
    IF o.throws
    THEN Returned(RefusalMessage)
    ELSE IF ~o.hasMedia \/ ~Truthy(o.url)
         THEN Returned(RefusalMessage)
         ELSE Returned(o.url)

\* The outcomes of the prompt call of the explanation flow: it throws (also
\* when the response does not parse), or it resolves with {output}, where
\* output may be null.
ExplainOutcomes(texts) ==
    [throws : {TRUE}, hasOutput : {FALSE}, explanation : {Null}]
    \cup [throws : {FALSE}, hasOutput : {FALSE}, explanation : {Null}]
    \cup [throws : {FALSE}, hasOutput : {TRUE}, explanation : texts]

\* explainVisualConceptFlow on an outcome of the prompt call: `output!` is
\* returned as it is, null included.
explainVisualConceptFlow(o) ==
    IF o.throws
    THEN Returned(ApologyMessage)
    ELSE IF o.hasOutput THEN Returned(o.explanation) ELSE ReturnedNull

\* A flow that calls the model again when the call threw.
ModelCallsRetry(flow, o) == IF o.throws THEN 2 ELSE 1

\* The model calls one run of a flow makes on the outcome o: each flow
\* awaits one call in its try block, and neither loops nor calls again in
\* its catch block.
ModelCalls(flow, o) == 1

\* --------------------------------------------------------- explored inputs
\* `deep` names the long exploration (SpecHist): few input values, many
\* submissions. The wide exploration (Spec) has more values and few
\* submissions.
Prompts(deep) ==
    IF deep THEN { << 97, 98, 99 >> }
    ELSE { << >>, << 97, 98 >>, << 97, 98, 99 >> }

DomainChoices(deep) ==
    IF deep THEN { "Physics" } ELSE { "Biology", "Physics" }

Files(deep) ==
    IF deep THEN { DataUri(201) } ELSE { DataUri(201), DataUri(202) }

\* The urls and texts the external model may answer the call numbered id with.
Urls(id) == { DataUri(id) }
Texts(deep, id) ==
    IF deep THEN { Text(id) } ELSE { Text(id), << >>, << Marker, 32 >> }

\* -------------------------------------------------------------------- state
VARIABLES
    mode,              \* "dual" (app/page.tsx) or "single" (the prompt-only page)
    form,              \* the form's values: prompt, domain, image
    promptError,       \* the validation message under the prompt field
    imagePreview,      \* useState: the data URI shown as preview, or Null
    readers,           \* the files whose FileReader has not finished
    isLoading,         \* useState
    generatedContent,  \* useState: a string or Null
    contentType,       \* useState: "visual", "explanation" or "null"
    history,           \* useState: the list of HistoryItems
    toast,             \* the title of the last toast shown
    calls,             \* the flow calls awaiting their answer
    nsubmits,          \* submissions made so far
    nedits,            \* events counted against MaxEdits
    nclicks,           \* selections of a history entry made so far
    log,               \* every entry ever put in history, oldest first
    lastFlow           \* the last answer to a call: the run of a flow, with
                       \* its outcome and its result, or a rejected call

vars ==
    << mode, form, promptError, imagePreview, readers, isLoading,
       generatedContent, contentType, history, toast, calls, nsubmits,
       nedits, nclicks, log, lastFlow >>

NoError == "none"
RefineMessage == "Please provide a prompt or an image."
MinMessage == "Prompt must be at least 3 characters."

Init ==
    /\ mode \in { "dual", "single" }
    /\ form = [prompt |-> << >>, domain |-> "Biology", image |-> Null]
    /\ promptError = NoError
    /\ imagePreview = Null
    /\ readers = {}
    /\ isLoading = FALSE
    /\ generatedContent = Null
    /\ contentType = "null"
    /\ history = << >>
    /\ toast = "none"
    /\ calls = {}
    /\ nsubmits = 0
    /\ nedits = 0
    /\ nclicks = 0
    /\ log = << >>
    /\ lastFlow = [flow |-> "none"]

\* The deep exploration takes events off the straight submit/succeed path
\* freely before the first submission, and at most MaxEdits of them once
\* the history is about to fill; the wide exploration takes them anywhere.
CanEdit(deep) ==
    deep => \/ nsubmits = 0
            \/ Len(log) >= SliceEnd - 1 /\ nedits < MaxEdits
Edited(deep) ==
    nedits' = IF deep /\ nsubmits > 0 THEN nedits + 1 ELSE nedits

\* ------------------------------------------------------------ form events
\* disabled={!!imagePreview} on the prompt textarea.
PromptDisabled == Truthy(imagePreview)

\* The label of the submit button when no call is pending.
SubmitLabel ==
    IF Truthy(imagePreview) THEN "Explain Visual" ELSE "Generate Visual"

\* The user types in the prompt textarea (disabled while a preview shows).
TypePrompt(deep) ==
    /\ ~PromptDisabled
    /\ CanEdit(deep)
    /\ \E p \in Prompts(deep) :
        /\ p /= form.prompt
        /\ form' = [form EXCEPT !.prompt = p]
    /\ Edited(deep)
    /\ UNCHANGED << nclicks, mode, promptError, imagePreview, readers, isLoading,
                    generatedContent, contentType, history, toast, calls,
                    nsubmits, log, lastFlow >>

\* The user picks a domain in the select.
SelectDomain(deep) ==
    /\ CanEdit(deep)
    /\ \E d \in DomainChoices(deep) :
        /\ d /= form.domain
        /\ form' = [form EXCEPT !.domain = d]
    /\ Edited(deep)
    /\ UNCHANGED << nclicks, mode, promptError, imagePreview, readers, isLoading,
                    generatedContent, contentType, history, toast, calls,
                    nsubmits, log, lastFlow >>

\* handleFileChange: a FileReader starts on the chosen file. The file input
\* is rendered only while no preview shows.
handleFileChange(deep) ==
    /\ mode = "dual"
    /\ ~Truthy(imagePreview)
    /\ CanEdit(deep)
    /\ \E f \in Files(deep) \ readers : readers' = readers \cup { f }
    /\ Edited(deep)
    /\ UNCHANGED << nclicks, mode, form, promptError, imagePreview, isLoading,
                    generatedContent, contentType, history, toast, calls,
                    nsubmits, log, lastFlow >>

\* reader.onloadend: reader.result is the file's data URI, or null when the
\* read failed.
ReaderLoadEnd ==
    /\ \E f \in readers :
        /\ readers' = readers \ { f }
        /\ \E result \in { f, Null } :
            /\ imagePreview' = result
            /\ form' = [form EXCEPT !.image = result]
    /\ promptError' = NoError
    /\ UNCHANGED << nclicks, mode, isLoading, generatedContent, contentType, history,
                    toast, calls, nsubmits, nedits, log, lastFlow >>

\* removeImage without its form.setValue('image', null).
removeImagePreviewOnly(deep) ==
    /\ mode = "dual"
    /\ Truthy(imagePreview)
    /\ CanEdit(deep)
    /\ imagePreview' = Null
    /\ Edited(deep)
    /\ UNCHANGED << nclicks, mode, form, promptError, readers, isLoading,
                    generatedContent, contentType, history, toast, calls,
                    nsubmits, log, lastFlow >>

\* removeImage, from the button on the preview.
removeImage(deep) ==
    /\ mode = "dual"
    /\ Truthy(imagePreview)
    /\ CanEdit(deep)
    /\ imagePreview' = Null
    /\ form' = [form EXCEPT !.image = Null]
    /\ Edited(deep)
    /\ UNCHANGED << nclicks, mode, promptError, readers, isLoading, generatedContent,
                    contentType, history, toast, calls, nsubmits, log,
                    lastFlow >>

\* ------------------------------------------------------------- submission
\* formSchema without the refine of the dual-mode schema.
formSchemaNoRefine(m, data) ==
    IF m = "dual"
    THEN NoError
    ELSE IF Len(data.prompt) >= MinPromptLen THEN NoError ELSE MinMessage

\* formSchema with min(1) in place of min(3) in the single-mode schema.
formSchemaMinOne(m, data) ==
    IF m = "dual"
    THEN IF Truthy(data.prompt) \/ Truthy(data.image)
         THEN NoError
         ELSE RefineMessage
    ELSE IF Len(data.prompt) >= 1 THEN NoError ELSE MinMessage

\* formSchema, as the resolver applies it to the form's values: the message
\* it puts on the prompt field, or NoError. Dual mode: the refine, prompt or
\* image present; single mode: the prompt has at least three characters.
formSchema(m, data) ==
    IF m = "dual"
    THEN IF Truthy(data.prompt) \/ Truthy(data.image)
         THEN NoError
         ELSE RefineMessage
    ELSE IF Len(data.prompt) >= MinPromptLen THEN NoError ELSE MinMessage

\* The values the resolver hands to onSubmit.
Values(m, data) ==
    IF m = "dual"
    THEN [prompt |-> data.prompt, domain |-> data.domain, image |-> data.image]
    ELSE [prompt |-> data.prompt, domain |-> data.domain]

\* A submit button that is never disabled.
SubmitNeverDisabled == FALSE

\* disabled={isLoading} on the submit button.
SubmitDisabled == isLoading

\* The mode test with the prompt consulted first.
ExplanationModePromptFirst(values) ==
    Truthy(values.image) /\ ~Truthy(values.prompt)

\* if (values.image): explanation mode, else generation mode.
ExplanationMode(values) == Truthy(values.image)

ExplainCall(values, id) ==
    [flow |-> "explain", id |-> id, values |-> values,
     input |-> [photoDataUri |-> values.image, domain |-> values.domain]]

GenerateCall(values, id) ==
    [flow |-> "generate", id |-> id, values |-> values,
     input |-> [prompt |-> values.prompt, domain |-> values.domain]]

\* onSubmit of the dual-mode page, up to its await (or its early return).
onSubmitDual(values, id) ==
    IF ExplanationMode(values)
    THEN /\ isLoading' = TRUE
         /\ generatedContent' = Null
         /\ contentType' = "explanation"
         /\ calls' = calls \cup { ExplainCall(values, id) }
         /\ toast' = toast
    ELSE IF ~Truthy(values.prompt)
         THEN /\ toast' = "Prompt is required"
              /\ isLoading' = FALSE
              /\ generatedContent' = Null
              /\ contentType' = "visual"
              /\ calls' = calls
         ELSE /\ isLoading' = TRUE
              /\ generatedContent' = Null
              /\ contentType' = "visual"
              /\ calls' = calls \cup { GenerateCall(values, id) }
              /\ toast' = toast

\* onSubmit of the single-mode page, up to its await.
onSubmitSingle(values, id) ==
    /\ isLoading' = TRUE
    /\ generatedContent' = Null
    /\ contentType' = contentType
    /\ calls' = calls \cup { GenerateCall(values, id) }
    /\ toast' = toast

\* form.handleSubmit(onSubmit), from the submit button: the resolver
\* validates, and onSubmit runs on valid values only.
handleSubmit(deep) ==
    /\ ~SubmitDisabled
    /\ nsubmits < (IF deep THEN MaxSubmitsHist ELSE MaxSubmits)
    /\ nsubmits' = nsubmits + 1
    /\ promptError' = formSchema(mode, form)
    /\ IF formSchema(mode, form) = NoError
       THEN /\ IF mode = "dual"
               THEN onSubmitDual(Values(mode, form), nsubmits + 1)
               ELSE onSubmitSingle(Values(mode, form), nsubmits + 1)
            /\ nedits' = nedits
       ELSE /\ CanEdit(deep)
            /\ Edited(deep)
            /\ UNCHANGED << isLoading, generatedContent, contentType, calls,
                            toast >>
    /\ UNCHANGED << nclicks, mode, form, imagePreview, readers, history, log,
                    lastFlow >>

\* ------------------------------------------------------------- resolution
\* The guard of setHistory without its startsWith test.
ShouldRecordAnyText(result) == Truthy(result)

\* The guard of setHistory: the result is truthy and does not start with
\* the marker.
ShouldRecord(result) == Truthy(result) /\ ~StartsWith(result, << Marker >>)

\* The HistoryItem built from the form's values at the time of the answer.
EntryFromForm(m, c, result) ==
    IF m = "single"
    THEN [prompt |-> form.prompt, domain |-> form.domain, image |-> result]
    ELSE IF c.flow = "explain"
         THEN [photoDataUri |-> form.image, domain |-> form.domain,
               explanation |-> result, type |-> "explanation"]
         ELSE [prompt |-> form.prompt, domain |-> form.domain,
               image |-> result, type |-> "visual"]

\* The HistoryItem built from the submitted values and the result.
Entry(m, c, result) ==
    IF m = "single"
    THEN [prompt |-> c.values.prompt, domain |-> c.values.domain,
          image |-> result]
    ELSE IF c.flow = "explain"
         THEN [photoDataUri |-> c.values.image, domain |-> c.values.domain,
               explanation |-> result, type |-> "explanation"]
         ELSE [prompt |-> c.values.prompt, domain |-> c.values.domain,
               image |-> result, type |-> "visual"]

\* The update of history without the slice.
PrependUncut(prev, entry) == << entry >> \o prev

\* The update of history with the new entry put last.
AppendCut(prev, entry) == Slice0(prev, SliceEnd) \o << entry >>

\* prev => [entry, ...prev.slice(0, 49)]
Prepend(prev, entry) == << entry >> \o Slice0(prev, SliceEnd)

\* setIsLoading(false) at the end of the try block instead of in finally.
LoadingAfterNoFinally(r) == r.threw \/ r.isNull

\* The value of isLoading once onSubmit has run to its end, whatever the
\* flow's answer r was: the finally block.
LoadingAfter(r) == FALSE

\* onSubmit after its await, on the answer r of the call c: the rest of the
\* try block when the call returned an object, the catch block when it
\* rejected or returned null (reading a field of null throws), then the
\* finally block.
Resume(c, r) ==
    /\ IF r.threw \/ r.isNull
       THEN /\ toast' = "An error occurred"
            /\ generatedContent' = UnexpectedMessage
            /\ history' = history
            /\ log' = log
       ELSE /\ toast' = toast
            /\ generatedContent' = r.field
            /\ IF ShouldRecord(r.field)
               THEN /\ history' = Prepend(history, Entry(mode, c, r.field))
                    /\ log' = Append(log, Entry(mode, c, r.field))
               ELSE /\ history' = history
                    /\ log' = log
    /\ isLoading' = LoadingAfter(r)
    /\ calls' = calls \ { c }

\* The answer r takes the straight path: a result that is recorded.
Straight(r) ==
    /\ ~r.threw
    /\ ~r.isNull
    /\ Truthy(r.field)
    /\ ~StartsWith(r.field, << Marker >>)

Settle(deep, c, r) ==
    /\ Straight(r) \/ CanEdit(deep)
    /\ nedits' = IF Straight(r) \/ ~deep THEN nedits ELSE nedits + 1
    /\ Resume(c, r)

\* A pending call is answered: the flow ran on some outcome of its model
\* call and its result came back, or the remote call itself rejected.
FlowSettles(deep) ==
    /\ \E c \in calls :
        \/ /\ c.flow = "generate"
           /\ \E o \in GenerateOutcomes(Urls(c.id)) :
                /\ Settle(deep, c, generateEducationalVisualFlow(o))
                /\ lastFlow' =
                       [flow |-> "generate", id |-> c.id, outcome |-> o,
                        modelCalls |-> ModelCalls("generate", o),
                        result |-> generateEducationalVisualFlow(o)]
        \/ /\ c.flow = "explain"
           /\ \E o \in ExplainOutcomes(Texts(deep, c.id)) :
                /\ Settle(deep, c, explainVisualConceptFlow(o))
                /\ lastFlow' =
                       [flow |-> "explain", id |-> c.id, outcome |-> o,
                        modelCalls |-> ModelCalls("explain", o),
                        result |-> explainVisualConceptFlow(o)]
        \/ /\ Settle(deep, c, Thrown)
           /\ lastFlow' = [flow |-> "rejected", id |-> c.id]
    /\ UNCHANGED << nclicks, mode, form, promptError, imagePreview, readers,
                    contentType, nsubmits >>

\* ---------------------------------------------------------------- history
\* The form after a replay that leaves the image field of a visual entry
\* as it was.
ReplayFormKeepsImage(m, item, f) ==
    IF m = "single" \/ item.type = "visual"
    THEN [f EXCEPT !.prompt = item.prompt, !.domain = item.domain]
    ELSE [prompt |-> << >>, domain |-> item.domain,
          image |-> item.photoDataUri]

\* The form's values after handleHistoryClick(item), from the values f.
ReplayForm(m, item, f) ==
    IF m = "single"
    THEN [f EXCEPT !.prompt = item.prompt, !.domain = item.domain]
    ELSE IF item.type = "visual"
         THEN [prompt |-> item.prompt, domain |-> item.domain,
               image |-> Null]
         ELSE [prompt |-> << >>, domain |-> item.domain,
               image |-> item.photoDataUri]

\* handleHistoryClick on the entry at position i.
handleHistoryClick(deep) ==
    /\ CanEdit(deep)
    /\ nclicks < MaxClicks
    /\ nclicks' = nclicks + 1
    /\ \E i \in 1 .. Len(history) :
        LET item == history[i] IN
        /\ form' = ReplayForm(mode, item, form)
        /\ IF mode = "single"
           THEN /\ generatedContent' = item.image
                /\ UNCHANGED << imagePreview, contentType >>
           ELSE IF item.type = "visual"
                THEN /\ imagePreview' = Null
                     /\ generatedContent' = item.image
                     /\ contentType' = "visual"
                ELSE /\ imagePreview' = item.photoDataUri
                     /\ generatedContent' = item.explanation
                     /\ contentType' = "explanation"
    /\ Edited(deep)
    /\ UNCHANGED << mode, promptError, readers, isLoading, history, toast,
                    calls, nsubmits, log, lastFlow >>

\* --------------------------------------------------------- specifications
Next ==
    \/ TypePrompt(FALSE)
    \/ SelectDomain(FALSE)
    \/ handleFileChange(FALSE)
    \/ ReaderLoadEnd
    \/ removeImage(FALSE)
    \/ handleSubmit(FALSE)
    \/ FlowSettles(FALSE)
    \/ handleHistoryClick(FALSE)

Spec == Init /\ [][Next]_vars

NextHist ==
    \/ TypePrompt(TRUE)
    \/ SelectDomain(TRUE)
    \/ handleFileChange(TRUE)
    \/ ReaderLoadEnd
    \/ removeImage(TRUE)
    \/ handleSubmit(TRUE)
    \/ FlowSettles(TRUE)
    \/ handleHistoryClick(TRUE)

SpecHist == Init /\ [][NextHist]_vars

\* The external flow call eventually resolves or rejects.
SpecLive == Init /\ [][Next]_vars /\ WF_vars(FlowSettles(FALSE))

\* ----------------------------------------------------------------- claims
\* The result an entry of history holds.
EntryResult(e) ==
    IF "explanation" \in DOMAIN e THEN e.explanation ELSE e.image

\* A step that is a submission.
SubmitStep == nsubmits' = nsubmits + 1

\* The calls a step starts.
Started == calls' \ calls

\* C1: in every reachable state, in both modes, history holds at most 50
\* entries.
C1_HistoryAtMost50 == Len(history) <= 50

\* More than 50 entries were recorded and history is full.
C1_Witness == Len(log) >= 52 /\ Len(history) = 50

\* C2: every entry of history holds a result that is non-empty and does not
\* start with the marker.
C2_NoMarkerInHistory ==
    \A i \in 1 .. Len(history) :
        /\ EntryResult(history[i]) /= Null
        /\ EntryResult(history[i]) /= << >>
        /\ EntryResult(history[i])[1] /= Marker

\* A flow answered with a text that starts with the marker, it is shown,
\* and history holds the earlier results only.
C2_Witness ==
    /\ lastFlow.flow = "explain"
    /\ lastFlow.outcome.hasOutput
    /\ lastFlow.result.field = << Marker, 32 >>
    /\ generatedContent = << Marker, 32 >>
    /\ ~isLoading
    /\ Len(history) >= 1

\* C3, each step: history changes only by a recorded result, which puts the
\* new entry first, moves every earlier entry back by one place in the same
\* order, and drops only the last entry when there were already 50.
C3_Step ==
    IF Len(log') = Len(log) + 1
    THEN /\ history'[1] = log'[Len(log')]
         /\ Len(history') = Min(Len(history) + 1, 50)
         /\ \A i \in 1 .. Len(history) :
                i + 1 <= 50 => history'[i + 1] = history[i]
    ELSE history' = history

\* C3, after 51 recorded submissions: the 51st is first and the first is
\* absent.
C3_After51 ==
    Len(log) = 51 =>
        /\ history[1] = log[51]
        /\ \A i \in 1 .. Len(history) : history[i] /= log[1]
        /\ \A i \in 1 .. Len(history) : history[i] = log[52 - i]

\* C3: history is ordered most-recent-first, and the oldest entry is the
\* one the cap drops.
C3_MostRecentFirst == [][C3_Step]_vars /\ []C3_After51

\* The 51st recorded submission has just been put first.
C3_Witness ==
    /\ Len(log) = 51
    /\ history[1] = log[51]
    /\ history[50] = log[2]

\* C4, each submission of the dual-mode page: with an image in the form it
\* starts explainVisualConcept on that image and nothing else; with no image
\* and a non-empty prompt it starts generateEducationalVisual on that prompt
\* and nothing else.
C4_Step ==
    (mode = "dual" /\ SubmitStep) =>
        /\ Truthy(form.image) =>
            /\ Started /= {}
            /\ \A c \in Started :
                /\ c.flow = "explain"
                /\ c.input = [photoDataUri |-> form.image,
                              domain |-> form.domain]
        /\ (~Truthy(form.image) /\ Truthy(form.prompt)) =>
            /\ Started /= {}
            /\ \A c \in Started :
                /\ c.flow = "generate"
                /\ c.input = [prompt |-> form.prompt, domain |-> form.domain]

\* C4: an attached image takes precedence over the prompt.
C4_ImageTakesPrecedence == [][C4_Step]_vars

\* A submission with both a prompt and an image went to the explanation
\* flow.
C4_Witness ==
    /\ mode = "dual"
    /\ \E c \in calls :
        /\ c.flow = "explain"
        /\ Truthy(c.values.prompt)
        /\ Truthy(c.values.image)

\* C5, each submission with an empty prompt and no image: no flow call
\* starts, isLoading is and stays false, history and the result pane keep
\* their values, and the prompt field carries a validation message.
C5_Step ==
    (SubmitStep /\ ~Truthy(form.prompt) /\ ~Truthy(form.image)) =>
        /\ calls' = calls
        /\ ~isLoading
        /\ ~isLoading'
        /\ history' = history
        /\ generatedContent' = generatedContent
        /\ contentType' = contentType
        /\ toast' = toast
        /\ promptError' /= NoError

\* C5: an empty submission is rejected locally.
C5_EmptyRejected == [][C5_Step]_vars

\* An empty submission was made after a result had been shown, and was
\* rejected.
C5_Witness ==
    /\ nsubmits >= 2
    /\ promptError /= NoError
    /\ ~Truthy(form.prompt)
    /\ ~Truthy(form.image)
    /\ Truthy(generatedContent)
    /\ calls = {}

\* C6 as claimed: every request passed to generateEducationalVisual carries
\* a prompt of at least 3 characters.
C6_PromptAtLeast3 ==
    \A c \in calls :
        c.flow = "generate" => Len(c.input.prompt) >= MinPromptLen

\* C6 as amended: every request passed to generateEducationalVisual carries
\* a prompt of at least 3 characters in the single-mode variant and a
\* non-empty prompt in the dual-mode page; a submission with no image and a
\* shorter prompt starts no flow.
C6_Step ==
    /\ \A c \in Started :
        c.flow = "generate" =>
            Len(c.input.prompt) >= (IF mode = "single" THEN 3 ELSE 1)
    /\ (/\ SubmitStep
        /\ ~Truthy(form.image)
        /\ Len(form.prompt) < (IF mode = "single" THEN 3 ELSE 1)) =>
            /\ Started = {}
            /\ promptError' /= NoError

C6_PromptLongEnough == [][C6_Step]_vars

\* The single-mode page rejected a prompt of two characters.
C6_Witness ==
    /\ mode = "single"
    /\ nsubmits >= 1
    /\ Len(form.prompt) = 2
    /\ promptError = MinMessage
    /\ calls = {}
    /\ ~isLoading

\* C7: at most one flow call is pending, a call is pending only while
\* isLoading is true, and the submit control is disabled exactly then.
C7_OneCallAtATime ==
    /\ Cardinality(calls) <= 1
    /\ calls /= {} => isLoading
    /\ SubmitDisabled <=> isLoading
    /\ SubmitDisabled => ~ENABLED handleSubmit(FALSE)

\* A second submission is pending after the first was answered.
C7_Witness ==
    /\ Cardinality(calls) = 1
    /\ isLoading
    /\ nsubmits >= 2
    /\ \E c \in calls : c.id >= 2

\* C8: every submission that enters Loading leaves it, given that the flow
\* call is answered; the answer to a call always ends Loading.
C8_LoadingEnds ==
    /\ isLoading ~> ~isLoading
    /\ [][(calls' /= calls /\ calls' \subseteq calls) => ~isLoading']_vars

\* A call that rejected has left Loading.
C8_Witness ==
    /\ nsubmits >= 1
    /\ ~isLoading
    /\ calls = {}
    /\ generatedContent = UnexpectedMessage

\* C9: whatever ai.generate does, generateEducationalVisual does not throw;
\* it returns the media url when there is one and the fixed refusal
\* message, which starts with the marker, otherwise.
C9_GenerateNeverThrows ==
    lastFlow.flow = "generate" =>
        /\ ~lastFlow.result.threw
        /\ ~lastFlow.result.isNull
        /\ IF /\ ~lastFlow.outcome.throws
              /\ lastFlow.outcome.hasMedia
              /\ lastFlow.outcome.url /= Null
              /\ lastFlow.outcome.url /= << >>
           THEN lastFlow.result.field = lastFlow.outcome.url
           ELSE /\ lastFlow.result.field = RefusalMessage
                /\ lastFlow.result.field[1] = Marker

\* ai.generate threw and the page shows the refusal message.
C9_Witness ==
    /\ lastFlow.flow = "generate"
    /\ lastFlow.outcome.throws
    /\ generatedContent = RefusalMessage
    /\ ~isLoading

\* C10 as claimed: when the prompt call throws or resolves with no output,
\* explainVisualConcept returns the fixed apology message and does not
\* throw.
C10_ExplainNormalizes ==
    (/\ lastFlow.flow = "explain"
     /\ lastFlow.outcome.throws \/ ~lastFlow.outcome.hasOutput) =>
        lastFlow.result = Returned(ApologyMessage)

\* C11 as claimed: whenever the model's response carries the refusal
\* sentence, generateEducationalVisual returns a string that begins with the
\* marker, also when the response carries a media payload.
C11_RefusalSurfaced ==
    (/\ lastFlow.flow = "generate"
     /\ ~lastFlow.outcome.throws
     /\ lastFlow.outcome.text = RefusalSentence) =>
        /\ ~lastFlow.result.threw
        /\ lastFlow.result.field /= << >>
        /\ lastFlow.result.field[1] = Marker

\* A step that is a selection of a history entry.
ClickStep == nclicks' = nclicks + 1

\* C12, each selection of a history entry: the form and the result pane
\* hold what some entry of history stores (a visual entry: its prompt and
\* domain, no image, its image as a visual; an explanation entry: an empty
\* prompt, its domain and image, its explanation as an explanation), no
\* flow call starts, and history, isLoading and the pending calls are
\* unchanged.
C12_Step ==
    ClickStep =>
        /\ \E i \in 1 .. Len(history) :
            LET item == history[i] IN
            IF mode = "single"
            THEN /\ form'.prompt = item.prompt
                 /\ form'.domain = item.domain
                 /\ generatedContent' = item.image
            ELSE IF item.type = "visual"
                 THEN /\ form'.prompt = item.prompt
                      /\ form'.domain = item.domain
                      /\ form'.image = Null
                      /\ imagePreview' = Null
                      /\ generatedContent' = item.image
                      /\ contentType' = "visual"
                 ELSE /\ form'.prompt = << >>
                      /\ form'.domain = item.domain
                      /\ form'.image = item.photoDataUri
                      /\ imagePreview' = item.photoDataUri
                      /\ generatedContent' = item.explanation
                      /\ contentType' = "explanation"
        /\ calls' = calls
        /\ history' = history
        /\ isLoading' = isLoading
        /\ nsubmits' = nsubmits

\* C12: selecting a history entry is a pure replay.
C12_PureReplay == [][C12_Step]_vars

\* A visual entry was selected while an image was attached: the image is
\* gone and the entry's prompt and result are shown.
C12_Witness ==
    /\ mode = "dual"
    /\ nclicks >= 1
    /\ Len(history) = 2
    /\ history[1].type = "explanation"
    /\ history[2].type = "visual"
    /\ form = [prompt |-> history[2].prompt, domain |-> history[2].domain,
               image |-> Null]
    /\ imagePreview = Null
    /\ generatedContent = history[2].image
    /\ contentType = "visual"

\* C13, each step: a submission starts exactly one flow call when the
\* form's values pass validation and none when they fail; no other step,
\* the answer to a failed, refused or rejected call included, starts a call;
\* and a call that starts is new, not an earlier one issued again.
C13_Step ==
    /\ SubmitStep =>
        Cardinality(Started) =
            IF \/ mode = "dual" /\ (form.prompt /= << >> \/ Truthy(form.image))
               \/ mode = "single" /\ Len(form.prompt) >= 3
            THEN 1
            ELSE 0
    /\ ~SubmitStep => Started = {}
    /\ \A c \in Started : c.id = nsubmits' /\ c.id > nsubmits

\* C13, each run of a flow: it made one model call.
C13_SingleModelCall ==
    lastFlow.flow \in { "generate", "explain" } => lastFlow.modelCalls = 1

RecordStep == Len(log') = Len(log) + 1

\* C14, each step of the dual-mode page: a call that starts carries the
\* form's values of that moment; and the entry a recorded result puts first
\* holds the values its call was submitted with, the result that is shown,
\* and the tag of its flow: 'visual' with prompt, domain and image for
\* generateEducationalVisual, 'explanation' with photoDataUri, domain and
\* explanation for explainVisualConcept.
C14_Step ==
    mode = "dual" =>
        /\ \A c \in Started :
            /\ c.values.prompt = form.prompt
            /\ c.values.domain = form.domain
            /\ c.values.image = form.image
        /\ RecordStep =>
            \E c \in calls \ calls' :
                /\ generatedContent' /= << >>
                /\ generatedContent'[1] /= Marker
                /\ c.flow = "generate" =>
                    history'[1] =
                        [type |-> "visual", prompt |-> c.values.prompt,
                         domain |-> c.values.domain,
                         image |-> generatedContent']
                /\ c.flow = "explain" =>
                    history'[1] =
                        [type |-> "explanation",
                         photoDataUri |-> c.values.image,
                         domain |-> c.values.domain,
                         explanation |-> generatedContent']

\* C14: a recorded entry holds the request as submitted, its result and the
\* matching tag.
C14_EntryAsSubmitted == [][C14_Step]_vars

\* An explanation was recorded after the image was removed and the domain
\* changed while the call was pending.
C14_Witness ==
    /\ mode = "dual"
    /\ Len(history) >= 1
    /\ history[1].type = "explanation"
    /\ generatedContent = history[1].explanation
    /\ form.image = Null
    /\ form.domain /= history[1].domain
    /\ nclicks = 0
    /\ ~isLoading

\* C15 as claimed: once a call has been answered and isLoading is false
\* again, generatedContent is a non-empty string, never null or empty.
C15_SomethingDisplayed ==
    (lastFlow.flow /= "none" /\ ~isLoading) =>
        /\ generatedContent /= Null
        /\ generatedContent /= << >>

\* A step in which a call is answered by a rejection: the remote call
\* rejected, or it returned null and reading its field threw.
RejectStep ==
    /\ lastFlow' /= lastFlow
    /\ \/ lastFlow'.flow = "rejected"
       \/ lastFlow'.flow = "explain" /\ lastFlow'.result.isNull

\* C16, each rejection: generatedContent becomes the fixed string
\* (marker, ' An unexpected error occurred.'), history is unchanged,
\* isLoading ends false, and the error toast is shown.
C16_Step ==
    RejectStep =>
        /\ generatedContent' = << Marker, 32, 65 >>
        /\ history' = history
        /\ log' = log
        /\ ~isLoading'
        /\ toast' = "An error occurred"

\* C16: a rejected call shows the generic message only.
C16_GenericOnReject == [][C16_Step]_vars

\* The second call rejected after the first was recorded.
C16_Witness ==
    /\ lastFlow.flow = "rejected"
    /\ lastFlow.id = 2
    /\ generatedContent = << Marker, 32, 65 >>
    /\ Len(history) = 1
    /\ toast = "An error occurred"
    /\ ~isLoading

\* C17 as claimed: in the dual-mode page, whenever isLoading is false and
\* generatedContent is a non-empty string that does not start with the
\* marker, contentType names the kind of that content: 'visual' exactly when
\* it is the image of a recorded generation, 'explanation' exactly when it
\* is the text of a recorded explanation.
C17_KindMatchesContent ==
    (/\ mode = "dual"
     /\ ~isLoading
     /\ generatedContent /= Null
     /\ generatedContent /= << >>
     /\ generatedContent[1] /= Marker) =>
        /\ contentType = "visual" <=>
            \E i \in 1 .. Len(log) :
                log[i].type = "visual" /\ log[i].image = generatedContent
        /\ contentType = "explanation" <=>
            \E i \in 1 .. Len(log) :
                /\ log[i].type = "explanation"
                /\ log[i].explanation = generatedContent

\* C18: in the dual-mode page the preview and the form's image value agree
\* in every reachable state: one is set exactly when the other is, to the
\* same data URI; so the prompt field is disabled, and the button reads
\* 'Explain Visual', exactly when a submission would take the explanation
\* path, and with no image the prompt field is enabled.
C18_PreviewAgrees ==
    mode = "dual" =>
        /\ imagePreview /= Null <=> form.image /= Null
        /\ imagePreview = form.image
        /\ PromptDisabled <=> (form.image /= Null /\ form.image /= << >>)
        /\ SubmitLabel = "Explain Visual" <=>
            (form.image /= Null /\ form.image /= << >>)
        /\ form.image = Null => ENABLED TypePrompt(FALSE)

\* A file finished loading after a visual history entry had been selected:
\* the pane shows the entry, and preview and form hold the file.
C18_Witness ==
    /\ mode = "dual"
    /\ nclicks >= 1
    /\ Len(history) = 1
    /\ history[1].type = "visual"
    /\ generatedContent = history[1].image
    /\ imagePreview = DataUri(201)
    /\ form.image = DataUri(201)
    /\ PromptDisabled

====
